---- MODULE Spec2Model ----
(***************************************************************************)
(* cepton_sdk.common.general: the structure-of-arrays container, the       *)
(* single-result cache, and the scalar and bulk C marshalers.              *)
(*                                                                         *)
(* Containers live in numbered slots; every numpy array is a heap cell     *)
(* named by the slot and attribute it was allocated for, so that aliasing  *)
(* between containers is expressible.  Member arrays are one-dimensional.  *)
(***************************************************************************)
EXTENDS Integers, Sequences, FiniteSets, TLC

MaxLen == 2
MaxObjs == 2
MaxList == 2
MaxSteps == 3
MaxCalls == 3
MaxConv == 3

None == "None"
\* Two distinguishable cell values.
Vals == {0, 1}
\* Slots 1 and 2 hold operands, slot 3 a result.
Slots == {1, 2, 3}
\* The slots the unrestricted specification uses.
FreeUse == 1..MaxObjs
Classes == {"P", "Q"}

\* The containers.
VARIABLES objs, heap, last, steps

soa_vars == <<objs, heap, last, steps>>

\* A single_cache instance, the objects it has made, and what it returned.
VARIABLES func, cached, cells, runs, calls, rets

cache_vars == <<func, cached, cells, runs, calls, rets>>

\* A bulk-marshaled container, and the last bulk conversion.
VARIABLES arr_obj, arr_last, arr_count

bulk_vars == <<arr_obj, arr_last, arr_count>>


\* A scalar-marshaled object, its C record, and the last scalar conversion.
VARIABLES rec_obj, rec_c, rec_last

scalar_vars == <<rec_obj, rec_c, rec_last>>

vars == <<soa_vars, cache_vars, bulk_vars, scalar_vars>>

---------------------------------------------------------------------------
(* Helpers *)

Range(s) == {s[i] : i \in DOMAIN s}

EmptyDict == [k \in {} |-> None]

Bind(d, k, v) == [j \in DOMAIN d \cup {k} |-> IF j = k THEN v ELSE d[j]]

IntVal(n) == [t |-> "int", v |-> n]

ArrRef(id) == [t |-> "arr", v |-> id]

SeqsUpTo(S, n) == UNION {[1..k -> S] : k \in 0..n}

---------------------------------------------------------------------------
(* numpy on one-dimensional arrays *)

zeros(n) == [i \in 1..n |-> 0]

arange(n) == [i \in 1..n |-> i - 1]

\* Python's slice.indices(n) for a positive step: the clamped start and stop.
slice_clamp(i, n) ==
    IF i < 0 THEN (IF i + n < 0 THEN 0 ELSE i + n)
    ELSE (IF i > n THEN n ELSE i)

slice_count(lo, hi, step) ==
    IF hi <= lo THEN 0 ELSE ((hi - lo - 1) \div step) + 1

\* arr[key] for a 1-d array: a 0-d scalar for an integer key, else an array.
ndarray_getitem(arr, key) ==
    LET n == Len(arr) IN
    CASE key.t = "int" ->
           IF key.i >= n \/ key.i < 0 - n
           THEN [err |-> "IndexError", dim |-> 0, data |-> <<>>]
           ELSE [err |-> "ok", dim |-> 0,
                 data |-> <<arr[(IF key.i < 0 THEN key.i + n ELSE key.i) + 1]>>]
      [] key.t = "slice" ->
           LET lo == slice_clamp(key.start, n)
               hi == slice_clamp(key.stop, n)
               c  == slice_count(lo, hi, key.step)
           IN [err |-> "ok", dim |-> 1,
               data |-> [j \in 1..c |-> arr[lo + (j - 1) * key.step + 1]]]
      [] key.t = "mask" ->
           IF Len(key.m) # n
           THEN [err |-> "IndexError", dim |-> 1, data |-> <<>>]
           ELSE LET pos == SelectSeq([i \in 1..n |-> i], LAMBDA i : key.m[i])
                IN [err |-> "ok", dim |-> 1,
                    data |-> [j \in 1..Len(pos) |-> arr[pos[j]]]]
      [] key.t = "list" ->
           IF \E j \in DOMAIN key.l : key.l[j] >= n \/ key.l[j] < 0 - n
           THEN [err |-> "IndexError", dim |-> 1, data |-> <<>>]
           ELSE [err |-> "ok", dim |-> 1,
                 data |-> [j \in 1..Len(key.l) |->
                    arr[(IF key.l[j] < 0 THEN key.l[j] + n ELSE key.l[j]) + 1]]]

\* numpy.reshape(a, [-1]): a 0-d scalar becomes a one-element array.
reshape_flat(a) == [err |-> a.err, dim |-> 1, data |-> a.data]

\* Mutant: rows counted from the end, arr[-indices - 1, ...].
take_from_end(arr, indices) ==
    [j \in 1..Len(indices) |-> arr[Len(arr) - indices[j]]]

\* arr[indices, ...] with an integer index array: always a fresh copy.
take(arr, indices) == [j \in 1..Len(indices) |-> arr[indices[j] + 1]]

\* dst[...] = src: src is broadcast to dst's shape (a length-1 src stretches).
assign_all(dst, src) ==
    IF Len(src) = Len(dst) THEN [err |-> "ok", data |-> src]
    ELSE IF Len(src) = 1
         THEN [err |-> "ok", data |-> [j \in 1..Len(dst) |-> src[1]]]
         ELSE [err |-> "ValueError", data |-> dst]

RECURSIVE scatter(_, _, _, _)
scatter(dst, indices, src, j) ==
    IF j > Len(indices) THEN dst
    ELSE scatter([dst EXCEPT ![indices[j] + 1] = src[j]], indices, src, j + 1)

\* Mutant: a src of the wrong length is cut or cycled to fit, never refused.
assign_at_cycled(dst, indices, src) ==
    IF Len(src) = 0 THEN [err |-> "ok", data |-> dst]
    ELSE [err |-> "ok",
          data |-> scatter(dst, indices,
                           [j \in 1..Len(indices) |-> src[((j - 1) % Len(src)) + 1]],
                           1)]

\* dst[indices, ...] = src: src is broadcast to the shape of the selection;
\* rows are stored in index order, so a repeated index keeps the last row.
assign_at(dst, indices, src) ==
    IF Len(src) = Len(indices)
    THEN [err |-> "ok", data |-> scatter(dst, indices, src, 1)]
    ELSE IF Len(src) = 1
         THEN [err |-> "ok",
               data |-> scatter(dst, indices,
                                [j \in 1..Len(indices) |-> src[1]], 1)]
         ELSE [err |-> "ValueError", data |-> dst]

---------------------------------------------------------------------------
(* class StructureOfArrays *)

\* The names hasattr(cls, name) finds on the class: its methods.
ClassAttrNames ==
    {"__init__", "_get_array_member_names", "__len__", "__setattr__",
     "get_common_names", "update", "convert", "_get_indices",
     "__getitem__", "__setitem__", "combine"}

\* Two concrete container types: P declares x and y, Q declares x alone.
get_array_member_names(cls) ==
    IF cls = "P" THEN <<"x", "y">> ELSE <<"x">>

hasattr_cls(cls, name) == name \in ClassAttrNames

hasattr_self(cls, dict, name) == name \in DOMAIN dict \/ hasattr_cls(cls, name)

\* Mutant: the membership test against the declared names is missing.
setattr_no_listing(cls, dict, name, value) ==
    IF hasattr_cls(cls, name)
    THEN [err |-> "ok", dict |-> Bind(dict, name, value)]
    ELSE IF hasattr_self(cls, dict, name)
    THEN [err |-> "AttributeError: already initialized", dict |-> dict]
    ELSE [err |-> "ok", dict |-> Bind(dict, name, value)]

\* Mutant: the test for an already bound name is missing.
setattr_rebinds(cls, dict, name, value) ==
    IF hasattr_cls(cls, name)
    THEN [err |-> "ok", dict |-> Bind(dict, name, value)]
    ELSE IF name \in {"_n"}
    THEN [err |-> "ok", dict |-> Bind(dict, name, value)]
    ELSE IF name \notin Range(get_array_member_names(cls))
    THEN [err |-> "AttributeError: not listed", dict |-> dict]
    ELSE [err |-> "ok", dict |-> Bind(dict, name, value)]

\* Mutant: every assignment is passed to object.__setattr__.
setattr_unchecked(cls, dict, name, value) ==
    [err |-> "ok", dict |-> Bind(dict, name, value)]

setattr(cls, dict, name, value) ==
    IF hasattr_cls(cls, name)
    THEN [err |-> "ok", dict |-> Bind(dict, name, value)]
    ELSE IF hasattr_self(cls, dict, name)
    THEN [err |-> "AttributeError: already initialized", dict |-> dict]
    ELSE IF name \in {"_n"}
    THEN [err |-> "ok", dict |-> Bind(dict, name, value)]
    ELSE IF name \notin Range(get_array_member_names(cls))
    THEN [err |-> "AttributeError: not listed", dict |-> dict]
    ELSE [err |-> "ok", dict |-> Bind(dict, name, value)]

\* StructureOfArrays.__init__: self._n = n on a new instance.
init(cls, n) == setattr(cls, EmptyDict, "_n", IntVal(n)).dict

\* The concrete type's constructor: after the base __init__, one zero-filled
\* array of length n is assigned to every declared member.
RECURSIVE alloc_members(_, _, _, _, _, _)
alloc_members(cls, s, n, names, dict, hp) ==
    IF names = <<>> THEN [obj |-> [cls |-> cls, dict |-> dict], heap |-> hp]
    ELSE LET id == <<s, Head(names)>>
             r  == setattr(cls, dict, Head(names), ArrRef(id))
         IN alloc_members(cls, s, n, Tail(names), r.dict,
                          IF r.err = "ok" THEN Bind(hp, id, zeros(n)) ELSE hp)

construct(cls, s, n, hp) ==
    alloc_members(cls, s, n, get_array_member_names(cls), init(cls, n), hp)

len(o) == o.dict["_n"].v

\* getattr(o, name) for an array attribute: the id of the array it is bound to.
getattr(o, name) == o.dict[name].v

get_common_names(cls, other) ==
    SelectSeq(get_array_member_names(cls),
              LAMBDA nm : nm \in Range(get_array_member_names(other.cls)))

\* Mutant: the copy runs from self to other.
RECURSIVE update_swapped(_, _, _, _)
update_swapped(self, other, names, hp) ==
    IF names = <<>> THEN [err |-> "ok", heap |-> hp]
    ELSE LET dst == getattr(other, Head(names))
             r   == assign_all(hp[dst], hp[getattr(self, Head(names))])
         IN IF r.err # "ok" THEN [err |-> r.err, heap |-> hp]
            ELSE update_swapped(self, other, Tail(names),
                                [hp EXCEPT ![dst] = r.data])

\* for name in names: getattr(self, name)[...] = getattr(other, name)
RECURSIVE update_loop(_, _, _, _)
update_loop(self, other, names, hp) ==
    IF names = <<>> THEN [err |-> "ok", heap |-> hp]
    ELSE LET dst == getattr(self, Head(names))
             r   == assign_all(hp[dst], hp[getattr(other, Head(names))])
         IN IF r.err # "ok" THEN [err |-> r.err, heap |-> hp]
            ELSE update_loop(self, other, Tail(names),
                             [hp EXCEPT ![dst] = r.data])

update(self, other, hp) ==
    update_loop(self, other, get_common_names(self.cls, other), hp)

convert(cls, s, other, hp) ==
    LET c == construct(cls, s, len(other), hp)
        u == update(c.obj, other, c.heap)
    IN [err |-> u.err, obj |-> c.obj, heap |-> u.heap]

get_indices(n, key) == reshape_flat(ndarray_getitem(arange(n), key))

\* for name in names: getattr(result, name)[...] = getattr(self, name)[indices, ...]
RECURSIVE getitem_loop(_, _, _, _, _)
getitem_loop(self, result, indices, names, hp) ==
    IF names = <<>> THEN [err |-> "ok", heap |-> hp]
    ELSE LET dst == getattr(result, Head(names))
             r   == assign_all(hp[dst],
                               take(hp[getattr(self, Head(names))], indices))
         IN IF r.err # "ok" THEN [err |-> r.err, heap |-> hp]
            ELSE getitem_loop(self, result, indices, Tail(names),
                              [hp EXCEPT ![dst] = r.data])

getitem(self, key, s, hp) ==
    LET ix == get_indices(len(self), key) IN
    IF ix.err # "ok" THEN [err |-> ix.err, obj |-> self, heap |-> hp]
    ELSE LET c == construct(self.cls, s, Len(ix.data), hp)
             g == getitem_loop(self, c.obj, ix.data,
                               get_array_member_names(self.cls), c.heap)
         IN [err |-> g.err, obj |-> c.obj, heap |-> g.heap]

\* for name in names: getattr(self, name)[indices, ...] = getattr(other, name)
RECURSIVE setitem_loop(_, _, _, _, _)
setitem_loop(self, other, indices, names, hp) ==
    IF names = <<>> THEN [err |-> "ok", heap |-> hp]
    ELSE LET dst == getattr(self, Head(names))
             r   == assign_at(hp[dst], indices, hp[getattr(other, Head(names))])
         IN IF r.err # "ok" THEN [err |-> r.err, heap |-> hp]
            ELSE setitem_loop(self, other, indices, Tail(names),
                              [hp EXCEPT ![dst] = r.data])

setitem(self, key, other, hp) ==
    LET ix == get_indices(len(self), key) IN
    IF ix.err # "ok" THEN [err |-> ix.err, heap |-> hp]
    ELSE setitem_loop(self, other, ix.data,
                      get_common_names(self.cls, other), hp)

RECURSIVE sum_len(_)
sum_len(others) ==
    IF others = <<>> THEN 0 ELSE len(Head(others)) + sum_len(Tail(others))

\* Mutant: offset is never advanced.
RECURSIVE combine_fixed_offset(_, _, _, _)
combine_fixed_offset(self, others, offset, hp) ==
    IF others = <<>> THEN [err |-> "ok", heap |-> hp]
    ELSE LET other == Head(others)
             key == [t |-> "slice", start |-> offset,
                     stop |-> offset + len(other), step |-> 1]
             r   == setitem(self, key, other, hp)
         IN IF r.err # "ok" THEN r
            ELSE combine_fixed_offset(self, Tail(others), offset, r.heap)

\* for i in range(len(other_list)): self[offset:offset + len(other)] = other
RECURSIVE combine_loop(_, _, _, _)
combine_loop(self, others, offset, hp) ==
    IF others = <<>> THEN [err |-> "ok", heap |-> hp]
    ELSE LET other == Head(others)
             key == [t |-> "slice", start |-> offset,
                     stop |-> offset + len(other), step |-> 1]
             r   == setitem(self, key, other, hp)
         IN IF r.err # "ok" THEN r
            ELSE combine_loop(self, Tail(others), offset + len(other), r.heap)

combine(cls, s, others, hp) ==
    IF Len(others) = 0
    THEN LET c == construct(cls, s, 0, hp)
         IN [err |-> "ok", obj |-> c.obj, heap |-> c.heap]
    ELSE LET c == construct(cls, s, sum_len(others), hp)
             r == combine_loop(c.obj, others, 0, c.heap)
         IN [err |-> r.err, obj |-> c.obj, heap |-> r.heap]

---------------------------------------------------------------------------
(* The container state machine *)

\* An empty slot.
NoObj == [cls |-> None, dict |-> EmptyDict]

Live(s) == objs[s].cls # None

FreeSlots == {s \in FreeUse : ~Live(s)}

\* A new container takes the lowest free slot.
NextFree(r) == r \in FreeSlots /\ \A s \in FreeSlots : r <= s

AttrNames == {"x", "y", "_n", "update", "tmp"}

Keys ==
    [t : {"int"}, i : (0 - MaxLen - 1)..MaxLen]
    \cup [t : {"slice"}, start : 0..MaxLen, stop : 0..MaxLen, step : {1, 2}]
    \cup [t : {"mask"}, m : SeqsUpTo(BOOLEAN, MaxLen)]
    \cup [t : {"list"}, l : SeqsUpTo(0..(MaxLen - 1), MaxLen)]

Op(op, err, s, t, r) == [op |-> op, err |-> err, self |-> s, other |-> t, res |-> r]

SoaInit ==
    /\ objs = [s \in Slots |-> NoObj]
    /\ heap = EmptyDict
    /\ last = Op("init", "ok", 0, 0, 0)
    /\ steps = 0

\* r = cls(n)
Construct(cls, n, r) ==
    /\ ~Live(r)
    /\ LET c == construct(cls, r, n, heap)
       IN /\ objs' = [objs EXCEPT ![r] = c.obj]
          /\ heap' = c.heap
    /\ last' = Op("construct", "ok", 0, 0, r)

\* objs[s].name = numpy.zeros(m), or objs[s]._n = m for the length attribute.
SetAttr(s, name, m) ==
    /\ Live(s)
    /\ LET id == <<s, name>>
           isn == name = "_n"
           r  == setattr(objs[s].cls, objs[s].dict, name,
                         IF isn THEN IntVal(m) ELSE ArrRef(id))
       IN /\ objs' = [objs EXCEPT ![s].dict = r.dict]
          /\ heap' = IF r.err = "ok" /\ ~isn THEN Bind(heap, id, zeros(m)) ELSE heap
          /\ last' = Op("setattr", r.err, s, 0, 0)

\* objs[s].name[i] = v: the caller writes one cell of a member in place.
Mutate(s, name, i, v) ==
    /\ Live(s)
    /\ name \in Range(get_array_member_names(objs[s].cls))
    /\ i \in DOMAIN heap[getattr(objs[s], name)]
    /\ heap' = [heap EXCEPT ![getattr(objs[s], name)][i] = v]
    /\ objs' = objs
    /\ last' = Op("mutate", "ok", s, 0, 0)

\* objs[s].update(objs[t])
Update(s, t) ==
    /\ Live(s) /\ Live(t)
    /\ LET u == update(objs[s], objs[t], heap)
       IN /\ heap' = u.heap
          /\ last' = Op("update", u.err, s, t, 0)
    /\ objs' = objs

\* r = cls.convert(objs[t])
Convert(cls, t, r) ==
    /\ Live(t) /\ ~Live(r)
    /\ LET c == convert(cls, r, objs[t], heap)
       IN /\ objs' = IF c.err = "ok" THEN [objs EXCEPT ![r] = c.obj] ELSE objs
          /\ heap' = IF c.err = "ok" THEN c.heap ELSE heap
          /\ last' = Op("convert", c.err, 0, t, IF c.err = "ok" THEN r ELSE 0)

\* r = objs[s][key]
GetItem(s, key, r) ==
    /\ Live(s) /\ ~Live(r)
    /\ LET g == getitem(objs[s], key, r, heap)
       IN /\ objs' = IF g.err = "ok" THEN [objs EXCEPT ![r] = g.obj] ELSE objs
          /\ heap' = IF g.err = "ok" THEN g.heap ELSE heap
          /\ last' = Op("getitem", g.err, s, 0, IF g.err = "ok" THEN r ELSE 0)

\* objs[s][key] = objs[t]
SetItem(s, key, t) ==
    /\ Live(s) /\ Live(t)
    /\ LET r == setitem(objs[s], key, objs[t], heap)
       IN /\ heap' = r.heap
          /\ last' = Op("setitem", r.err, s, t, 0)
    /\ objs' = objs

\* r = cls.combine([objs[t] for t in ts])
Combine(cls, ts, r) ==
    /\ \A j \in DOMAIN ts : Live(ts[j])
    /\ ~Live(r)
    /\ LET others == [j \in DOMAIN ts |-> objs[ts[j]]] IN
       /\ sum_len(others) <= MaxLen
       /\ LET c == combine(cls, r, others, heap)
          IN /\ objs' = IF c.err = "ok" THEN [objs EXCEPT ![r] = c.obj] ELSE objs
             /\ heap' = IF c.err = "ok" THEN c.heap ELSE heap
             /\ last' = Op("combine", c.err, 0, 0, IF c.err = "ok" THEN r ELSE 0)

---------------------------------------------------------------------------
(* class single_cache *)

\* Python values: None, or a reference to a mutable list on the cache heap.
PyNone == [t |-> "None", id |-> 0]

PyRef(i) == [t |-> "ref", id |-> i]

\* A new list object takes the next unused id.
NewId(c) == Cardinality(DOMAIN c) + 1

\* copy.deepcopy(v): None is returned as it is, a list is copied to a new object.
deepcopy(v, c) ==
    IF v.t = "None" THEN [value |-> PyNone, cells |-> c]
    ELSE [value |-> PyRef(NewId(c)), cells |-> Bind(c, NewId(c), c[v.id])]

\* self._func(*args, **kwargs): the producer builds its value anew on each run.
run_func(f, c) ==
    IF f.t = "None" THEN [value |-> PyNone, cells |-> c]
    ELSE [value |-> PyRef(NewId(c)), cells |-> Bind(c, NewId(c), f.data)]

\* The producers wrapped: one returning None, the others a list.
Producers ==
    {[t |-> "None", data |-> <<>>]} \cup [t : {"list"}, data : SeqsUpTo(Vals, MaxLen)]

\* single_cache.__init__
CacheStart(f) ==
    /\ func = f
    /\ cached = PyNone
    /\ cells = EmptyDict
    /\ runs = 0
    /\ calls = 0
    /\ rets = <<>>

\* single_cache.__call__
Call ==
    /\ calls < MaxCalls
    /\ LET miss == cached.t = "None"
           p == IF miss THEN run_func(func, cells)
                ELSE [value |-> cached, cells |-> cells]
           d == deepcopy(p.value, p.cells)
       IN /\ cached' = p.value
          /\ runs' = IF miss THEN runs + 1 ELSE runs
          /\ cells' = d.cells
          /\ rets' = Append(rets, d.value)
    /\ calls' = calls + 1
    /\ func' = func

\* A caller writes one cell of a value it was returned.
MutateReturned(k, i, v) ==
    /\ k \in DOMAIN rets
    /\ rets[k].t = "ref"
    /\ i \in DOMAIN cells[rets[k].id]
    /\ cells' = [cells EXCEPT ![rets[k].id][i] = v]
    /\ UNCHANGED <<func, cached, runs, calls, rets>>

---------------------------------------------------------------------------
(* class ToCArrayMixin, mixed into a container type with one member *)

\* What a method receives as its first argument.
Instance(n, data) == [kind |-> "instance", n |-> n, data |-> data]

TheClass == [kind |-> "class", n |-> 0, data |-> <<>>]

NoInstance == [kind |-> "none", n |-> 0, data |-> <<>>]

\* len(x): an instance answers with __len__; the class object has no length.
py_len(x) ==
    IF x.kind = "instance" THEN [err |-> "ok", v |-> x.n]
    ELSE [err |-> "TypeError", v |-> 0]

\* A classmethod is handed the class, whatever it is called on.
classmethod_self(x) == TheClass

\* cepton_sdk.common.c.convert_c_array_to_ndarray: the first n records.
convert_c_array_to_ndarray(c_a, n) == SubSeq(c_a, 1, n)

\* The subclass hooks: whole-array copies between the member and the records.
from_c_impl(self, data) == [self EXCEPT !.data = data]

to_c_impl(self, data) == self.data

update_from_c(self, c_a) ==
    IF py_len(self).v = 0 THEN [err |-> "ok", obj |-> self, hook |-> 0]
    ELSE [err |-> "ok",
          obj |-> from_c_impl(self, convert_c_array_to_ndarray(c_a, py_len(self).v)),
          hook |-> 1]

\* cls.from_c(n, c_a)
from_c_array(n, c_a) == update_from_c(Instance(n, zeros(n)), c_a)

\* obj.to_c()
to_c_array(obj) ==
    LET self == classmethod_self(obj)
        l == py_len(self)
    IN IF l.err # "ok" THEN [err |-> l.err, c_ptr |-> <<>>, hook |-> 0]
       ELSE [err |-> "ok", c_ptr |-> to_c_impl(self, zeros(l.v)), hook |-> 1]

Conv(op, err, n, hook) == [op |-> op, err |-> err, n |-> n, hook |-> hook]

\* How often each conversion and each hook has run so far.
Count(c, op, hook) ==
    [c EXCEPT ![op] = @ + 1,
              ![IF op = "to_c" THEN "to_c_impl" ELSE "from_c_impl"] = @ + hook]

Conversions == arr_count["to_c"] + arr_count["from_c"] + arr_count["update_from_c"]

\* A container of length n, as constructed.
BulkStart(n) ==
    /\ arr_obj = Instance(n, zeros(n))
    /\ arr_last = Conv("init", "ok", 0, 0)
    /\ arr_count = [k \in {"to_c", "from_c", "update_from_c",
                           "to_c_impl", "from_c_impl"} |-> 0]

ToC ==
    /\ arr_obj.kind = "instance"
    /\ Conversions < MaxConv
    /\ LET r == to_c_array(arr_obj)
       IN /\ arr_last' = Conv("to_c", r.err, arr_obj.n, r.hook)
          /\ arr_count' = Count(arr_count, "to_c", r.hook)
    /\ arr_obj' = arr_obj

FromC(n, c_a) ==
    /\ Len(c_a) = n
    /\ Conversions < MaxConv
    /\ LET r == from_c_array(n, c_a)
       IN /\ arr_obj' = r.obj
          /\ arr_last' = Conv("from_c", r.err, n, r.hook)
          /\ arr_count' = Count(arr_count, "from_c", r.hook)

UpdateFromC(c_a) ==
    /\ arr_obj.kind = "instance"
    /\ Len(c_a) = arr_obj.n
    /\ Conversions < MaxConv
    /\ LET r == update_from_c(arr_obj, c_a)
       IN /\ arr_obj' = r.obj
          /\ arr_last' = Conv("update_from_c", r.err, arr_obj.n, r.hook)
          /\ arr_count' = Count(arr_count, "update_from_c", r.hook)

---------------------------------------------------------------------------
(* class ToCMixin, mixed into a type whose C class has four fields *)

\* The _fields_ of the C class: a char array, a wchar array, a float array
\* and a scalar.
CFields ==
    <<[name |-> "name", kind |-> "char_array"],
      [name |-> "label", kind |-> "wchar_array"],
      [name |-> "pos", kind |-> "array"],
      [name |-> "id", kind |-> "scalar"]>>

Absent == "absent"

\* The values an attribute of the object may hold, by field.
AttrValues(name) ==
    CASE name = "name" -> {"str:a", "bytes:a"}
      [] name = "label" -> {"str:w"}
      [] name = "pos" -> {"tuple:0,1"}
      [] name = "id" -> {"int:0", "int:1"}

\* c_cls(): a zero-initialized record.
CDefault ==
    [f \in {"name", "label", "pos", "id"} |->
        CASE f = "name" -> "bytes:"
          [] f = "label" -> "str:"
          [] f = "pos" -> "carray:0,0"
          [] f = "id" -> "int:0"]

\* The values the C library may leave in a record, by field.
CValues(name) ==
    CASE name = "name" -> {"bytes:", "bytes:a"}
      [] name = "label" -> {"str:", "str:w"}
      [] name = "pos" -> {"carray:0,0", "carray:0,1"}
      [] name = "id" -> {"int:0", "int:1"}

\* Every record the C library may hand over.
CRecords ==
    {c \in [{"name", "label", "pos", "id"} ->
               UNION {CValues(f) : f \in {"name", "label", "pos", "id"}}] :
        \A f \in DOMAIN c : c[f] \in CValues(f)}

NoRecord == [f \in {"name", "label", "pos", "id"} |-> Absent]

\* _get_c_member_names(c_cls)
get_c_member_names == [i \in DOMAIN CFields |-> CFields[i].name]

\* The parameters of _get_c_member after cls: none.
GetCMemberParams == <<>>

\* Calling cls._get_c_member(*args): the arguments are bound to the
\* parameters first; the body then reads the global name member_name.
get_c_member(args) ==
    IF Len(args) # Len(GetCMemberParams) THEN [err |-> "TypeError", kind |-> Absent]
    ELSE [err |-> "NameError", kind |-> Absent]

to_c_value(member_name, value) ==
    LET c_member == get_c_member(<<member_name>>) IN
    IF c_member.err # "ok" THEN [err |-> c_member.err, value |-> value]
    ELSE IF c_member.kind \in {"char_array", "wchar_array", "array"}
    THEN \* issubclass(c_member.type._type_, c_char): c_char is not defined
         [err |-> "NameError", value |-> value]
    ELSE [err |-> "ok", value |-> value]

\* ToCMixin._from_c_value
from_c_value(member_name, c_value) == c_value

RECURSIVE to_c_loop(_, _, _)
to_c_loop(self, names, c_obj) ==
    IF names = <<>> THEN [err |-> "ok", c_obj |-> c_obj]
    ELSE IF self[Head(names)] = Absent
    THEN to_c_loop(self, Tail(names), c_obj)
    ELSE LET r == to_c_value(Head(names), self[Head(names)])
         IN IF r.err # "ok" THEN [err |-> r.err, c_obj |-> c_obj]
            ELSE to_c_loop(self, Tail(names),
                           [c_obj EXCEPT ![Head(names)] = r.value])

\* ToCMixin.to_c
to_c(self) == to_c_loop(self, get_c_member_names, CDefault)

RECURSIVE from_c_loop(_, _, _)
from_c_loop(c_obj, names, obj) ==
    IF names = <<>> THEN obj
    ELSE from_c_loop(c_obj, Tail(names),
                     [obj EXCEPT ![Head(names)] =
                         from_c_value(Head(names), c_obj[Head(names)])])

\* ToCMixin.from_c
from_c(c_obj) == from_c_loop(c_obj, get_c_member_names, NoRecord)

ScalarInit ==
    /\ rec_obj = NoRecord
    /\ rec_c = NoRecord
    /\ rec_last = [op |-> "init", err |-> "ok"]

\* The caller sets or deletes an attribute of the object.
SetField(name, value) ==
    /\ rec_obj' = [rec_obj EXCEPT ![name] = value]
    /\ rec_last' = [op |-> "set", err |-> "ok"]
    /\ rec_c' = rec_c

\* The C library fills a record.
NativeFill(c) ==
    /\ rec_c' = c
    /\ rec_last' = [op |-> "native", err |-> "ok"]
    /\ rec_obj' = rec_obj

\* rec_c = rec_obj.to_c()
ToCRecord ==
    /\ LET r == to_c(rec_obj)
       IN /\ rec_c' = IF r.err = "ok" THEN r.c_obj ELSE rec_c
          /\ rec_last' = [op |-> "to_c", err |-> r.err]
    /\ rec_obj' = rec_obj

\* rec_obj = cls.from_c(rec_c)
FromCRecord ==
    /\ rec_c # NoRecord
    /\ rec_obj' = from_c(rec_c)
    /\ rec_last' = [op |-> "from_c", err |-> "ok"]
    /\ rec_c' = rec_c

---------------------------------------------------------------------------
(* Specifications *)

SoaIdle == UNCHANGED soa_vars

CacheIdle == UNCHANGED cache_vars

BulkIdle == UNCHANGED bulk_vars

ScalarIdle == UNCHANGED scalar_vars

\* Steps of the containers: the unrestricted specification counts them.
Tick ==
    steps < MaxSteps /\ steps' = steps + 1 /\ CacheIdle /\ BulkIdle /\ ScalarIdle

Hold == steps' = steps /\ CacheIdle /\ BulkIdle /\ ScalarIdle

\* Any sequence of at most MaxSteps operations on at most MaxObjs containers.
SoaNext ==
    \/ \E cls \in Classes, n \in 0..MaxLen, r \in FreeUse :
          Tick /\ NextFree(r) /\ Construct(cls, n, r)
    \/ \E s \in FreeUse, name \in AttrNames, m \in 0..MaxLen :
          Tick /\ SetAttr(s, name, m)
    \/ \E s \in FreeUse, name \in {"x", "y"}, i \in 1..MaxLen, v \in Vals :
          Tick /\ Mutate(s, name, i, v)
    \/ \E s \in FreeUse, t \in FreeUse : Tick /\ Update(s, t)
    \/ \E cls \in Classes, t \in FreeUse, r \in FreeUse :
          Tick /\ NextFree(r) /\ Convert(cls, t, r)
    \/ \E s \in FreeUse, key \in Keys, r \in FreeUse :
          Tick /\ NextFree(r) /\ GetItem(s, key, r)
    \/ \E s \in FreeUse, key \in Keys, t \in FreeUse : Tick /\ SetItem(s, key, t)
    \/ \E cls \in Classes, ts \in SeqsUpTo(FreeUse, MaxList), r \in FreeUse :
          Tick /\ NextFree(r) /\ Combine(cls, ts, r)

NoProducer == [t |-> "None", data |-> <<>>]

Init ==
    /\ SoaInit
    /\ CacheStart(NoProducer)
    /\ BulkStart(0)
    /\ ScalarInit

Spec == Init /\ [][SoaNext]_vars

\* One container: construction, attribute assignment, cell writes.
AttrNext ==
    \/ \E cls \in Classes, n \in 0..MaxLen : Hold /\ Construct(cls, n, 1)
    \/ \E name \in AttrNames, m \in 0..MaxLen : Hold /\ SetAttr(1, name, m)
    \/ \E name \in {"x", "y"}, i \in 1..MaxLen, v \in Vals :
          Hold /\ Mutate(1, name, i, v)

SpecAttr == Init /\ [][AttrNext]_vars

\* A container in slot 1 and the sub-container c[key] in slot 2.
IndexNext ==
    \/ \E cls \in Classes, n \in 0..MaxLen : Hold /\ Construct(cls, n, 1)
    \/ \E s \in {1, 2}, name \in {"x", "y"}, i \in 1..MaxLen, v \in Vals :
          Hold /\ Mutate(s, name, i, v)
    \/ \E key \in Keys : Hold /\ GetItem(1, key, 2)

SpecIndex == Init /\ [][IndexNext]_vars

\* Two containers, one updated from the other.
UpdateNext ==
    \/ \E cls \in Classes, n \in 0..MaxLen, r \in {1, 2} :
          Hold /\ Construct(cls, n, r)
    \/ \E s \in {1, 2}, name \in {"x", "y"}, i \in 1..MaxLen, v \in Vals :
          Hold /\ Mutate(s, name, i, v)
    \/ \E s \in {1, 2}, t \in {1, 2} : Hold /\ Update(s, t)

SpecUpdate == Init /\ [][UpdateNext]_vars

\* The destination has been written from the source.
Assigned == last.op \in {"setitem", "update"}

\* A destination in slot 1 and a source in slot 2 are prepared, then the
\* destination is written from the source once.
AssignNext ==
    \/ \E cls \in Classes, n \in 0..MaxLen, r \in {1, 2} :
          Hold /\ ~Assigned /\ Construct(cls, n, r)
    \/ \E name \in {"x", "y"}, i \in 1..MaxLen, v \in Vals :
          Hold /\ ~Assigned /\ Mutate(2, name, i, v)
    \/ Hold /\ ~Assigned /\ Update(1, 2)
    \/ \E key \in Keys : Hold /\ ~Assigned /\ SetItem(1, key, 2)

SpecAssign == Init /\ [][AssignNext]_vars

\* Two containers prepared in slots 1 and 2, then combined into slot 3.
CombineNext ==
    \/ \E cls \in Classes, n \in 0..MaxLen, r \in {1, 2} :
          Hold /\ ~Live(3) /\ Construct(cls, n, r)
    \/ \E s \in {1, 2}, name \in {"x", "y"}, i \in 1..MaxLen, v \in Vals :
          Hold /\ ~Live(3) /\ Mutate(s, name, i, v)
    \/ \E cls \in Classes, ts \in SeqsUpTo({1, 2}, MaxList) :
          Hold /\ Combine(cls, ts, 3)

SpecCombine == Init /\ [][CombineNext]_vars

\* Calls of one cached function, and callers writing into what they got.
CacheNext ==
    \/ Call /\ SoaIdle /\ BulkIdle /\ ScalarIdle
    \/ \E k \in 1..MaxCalls, i \in 1..MaxLen, v \in Vals :
          MutateReturned(k, i, v) /\ SoaIdle /\ BulkIdle /\ ScalarIdle

\* A cache around each of the producers.
CacheInit ==
    \E f \in Producers : SoaInit /\ CacheStart(f) /\ BulkStart(0) /\ ScalarInit

SpecCache == CacheInit /\ [][CacheNext]_vars

\* Bulk conversions of one container in both directions.
BulkNext ==
    \/ ToC /\ SoaIdle /\ CacheIdle /\ ScalarIdle
    \/ \E n \in 0..MaxLen, c_a \in SeqsUpTo(Vals, MaxLen) :
          FromC(n, c_a) /\ SoaIdle /\ CacheIdle /\ ScalarIdle
    \/ \E c_a \in SeqsUpTo(Vals, MaxLen) : UpdateFromC(c_a) /\ SoaIdle /\ CacheIdle /\ ScalarIdle

\* A container of each length.
BulkInit ==
    \E n \in 0..MaxLen :
        SoaInit /\ CacheStart(NoProducer) /\ BulkStart(n) /\ ScalarInit

SpecBulk == BulkInit /\ [][BulkNext]_vars

\* Scalar conversions of one object in both directions.
ScalarNext ==
    \/ ToCRecord /\ SoaIdle /\ CacheIdle /\ BulkIdle
    \/ FromCRecord /\ SoaIdle /\ CacheIdle /\ BulkIdle
    \/ \E f \in DOMAIN NoRecord :
          \E value \in AttrValues(f) \cup {Absent} :
             SetField(f, value) /\ SoaIdle /\ CacheIdle /\ BulkIdle
    \/ \E c \in CRecords : NativeFill(c) /\ SoaIdle /\ CacheIdle /\ BulkIdle

SpecScalar == Init /\ [][ScalarNext]_vars

---------------------------------------------------------------------------
(* Reading a container's state *)

Declared(s) == Range(get_array_member_names(objs[s].cls))

Member(s, nm) == heap[getattr(objs[s], nm)]

Members(s) == [nm \in Declared(s) |-> Member(s, nm)]

ArrayIds(s) == {getattr(objs[s], nm) : nm \in Declared(s)}

IsAttributeError(e) ==
    e \in {"AttributeError: already initialized", "AttributeError: not listed"}

\* What a key selects from 0..n-1, in selection order, stated directly.
ValidKey(key, n) ==
    CASE key.t = "int" -> key.i >= 0 /\ key.i < n
      [] key.t = "slice" -> TRUE
      [] key.t = "mask" -> Len(key.m) = n
      [] key.t = "list" -> \A j \in DOMAIN key.l : key.l[j] >= 0 /\ key.l[j] < n

Selected(key, n) ==
    LET all == [p \in 1..n |-> p - 1] IN
    CASE key.t = "int" -> <<key.i>>
      [] key.t = "slice" ->
           SelectSeq(all, LAMBDA p : /\ p >= key.start /\ p < key.stop
                                     /\ (p - key.start) % key.step = 0)
      [] key.t = "mask" -> SelectSeq(all, LAMBDA p : key.m[p + 1])
      [] key.t = "list" -> key.l

---------------------------------------------------------------------------
(* C1: c[k] for a valid key k (integer, slice, boolean mask, index list) is
   a new container of c's type whose length is the number of elements k
   selects and whose members hold c's selected rows in selection order,
   in storage that c does not share; writing a cell of the result in place
   leaves every member of c unchanged. *)
IndexPost(key) ==
    LET sel == Selected(key, len(objs[1])) IN
    /\ last'.err = "ok"
    /\ objs'[1] = objs[1]
    /\ objs'[2].cls = objs[1].cls
    /\ len(objs'[2]) = Len(sel)
    /\ \A nm \in Declared(1) :
          /\ Member(2, nm)' = [j \in 1..Len(sel) |-> Member(1, nm)[sel[j] + 1]]
          /\ Member(1, nm)' = Member(1, nm)
    /\ ArrayIds(1)' \cap ArrayIds(2)' = {}

C1_IndexCopies ==
    [][/\ \A key \in Keys :
            (GetItem(1, key, 2) /\ ValidKey(key, len(objs[1]))) => IndexPost(key)
       /\ \A nm \in {"x", "y"}, i \in 1..MaxLen, v \in Vals :
            (Live(2) /\ Mutate(2, nm, i, v)) => Members(1)' = Members(1)
      ]_vars

\* c[[1, 0]] taken from a two-row container c whose rows differ, and then a
\* cell of the result overwritten so that it no longer mirrors c.
C1_Witness ==
    /\ Live(1) /\ Live(2)
    /\ len(objs[1]) = 2 /\ len(objs[2]) = 2
    /\ Member(1, "x") = <<0, 1>>
    /\ Member(2, "x") = <<1, 1>>
    /\ last.op = "mutate" /\ last.self = 2

---------------------------------------------------------------------------
(* C2: combine([]) has length 0; combining an ordered list of containers of
   the combined type gives a container whose length is the sum of their
   lengths and whose every member is the inputs' rows laid end to end in
   input order, so that for two inputs a, b the rows [0, len(a)) are a's and
   the rows from len(a) on are b's, zero-length inputs included. *)
RECURSIVE ConcatRows(_, _)
ConcatRows(ts, nm) ==
    IF ts = <<>> THEN <<>>
    ELSE Member(Head(ts), nm) \o ConcatRows(Tail(ts), nm)

RECURSIVE TotalLen(_)
TotalLen(ts) ==
    IF ts = <<>> THEN 0 ELSE len(objs[Head(ts)]) + TotalLen(Tail(ts))

CombinePost(cls, ts) ==
    /\ last'.err = "ok"
    /\ objs'[3].cls = cls
    /\ len(objs'[3]) = TotalLen(ts)
    /\ ts = <<>> => len(objs'[3]) = 0
    /\ \A nm \in Range(get_array_member_names(cls)) :
          /\ Member(3, nm)' = ConcatRows(ts, nm)
          /\ Len(ts) = 2 =>
                LET la == len(objs[ts[1]]) IN
                /\ SubSeq(Member(3, nm)', 1, la) = Member(ts[1], nm)
                /\ SubSeq(Member(3, nm)', la + 1, Len(Member(3, nm)'))
                      = Member(ts[2], nm)

C2_CombineConcatenates ==
    [][\A cls \in Classes, ts \in SeqsUpTo({1, 2}, MaxList) :
          (Combine(cls, ts, 3) /\ \A j \in DOMAIN ts : objs[ts[j]].cls = cls)
             => CombinePost(cls, ts)
      ]_vars

\* combine([a, b]) of two one-row containers with different rows.
C2_Witness ==
    /\ last.op = "combine" /\ last.err = "ok" /\ Live(3)
    /\ objs[3].cls = "P" /\ objs[1].cls = "P" /\ objs[2].cls = "P"
    /\ Member(1, "x") = <<1>> /\ Member(2, "x") = <<0>>
    /\ Member(3, "x") = <<1, 0>> /\ Member(3, "y") = <<0, 1>>

\* combine([]) and combine([a, b]) with a empty.
C2_WitnessEmpty ==
    /\ last.op = "combine" /\ last.err = "ok" /\ Live(3)
    /\ len(objs[3]) = 0

---------------------------------------------------------------------------
(* C3: for containers a, b of equal length, a.update(b) with the default
   names leaves in every member declared by both exactly b's contents,
   leaves every other member of a, the length of a and all of b unchanged. *)
UpdatePost(s, t) ==
    LET common == Declared(s) \cap Declared(t) IN
    /\ last'.err = "ok"
    /\ objs' = objs
    /\ \A nm \in common : Member(s, nm)' = Member(t, nm)
    /\ \A nm \in Declared(s) \ common : Member(s, nm)' = Member(s, nm)
    /\ len(objs'[s]) = len(objs[s])
    /\ Members(t)' = Members(t)

C3_UpdateCopiesCommon ==
    [][\A s \in {1, 2}, t \in {1, 2} :
          (Update(s, t) /\ len(objs[s]) = len(objs[t])) => UpdatePost(s, t)
      ]_vars

\* A two-member container updated from a one-member container: x is taken
\* over, y is kept.
C3_Witness ==
    /\ last.op = "update" /\ last.err = "ok" /\ last.self = 1 /\ last.other = 2
    /\ objs[1].cls = "P" /\ objs[2].cls = "Q"
    /\ Member(1, "x") = <<1, 0>> /\ Member(1, "y") = <<0, 1>>
    /\ Member(2, "x") = <<1, 0>>

---------------------------------------------------------------------------
(* C4 as stated: an instance never holds an attribute outside its declared
   members and the internal length. *)
C4_OnlyDeclaredAttributes ==
    \A s \in Slots :
       Live(s) => DOMAIN objs[s].dict \subseteq Declared(s) \cup {"_n"}

(* C4: an assignment whose name is neither a declared member nor an
   attribute of the class raises an attribute error and changes nothing; an
   instance never holds an attribute outside its declared members, the
   internal length and the names the class itself defines. *)
C4_UndeclaredRejected ==
    /\ [](\A s \in Slots :
            Live(s) => DOMAIN objs[s].dict
                          \subseteq Declared(s) \cup {"_n"} \cup ClassAttrNames)
    /\ [][\A name \in AttrNames, m \in 0..MaxLen :
             (/\ SetAttr(1, name, m)
              /\ name \notin Declared(1)
              /\ name \notin ClassAttrNames)
                => /\ IsAttributeError(last'.err)
                   /\ objs' = objs
                   /\ heap' = heap
         ]_vars

\* c.tmp = zeros(m) was refused.
C4_Witness ==
    /\ last.op = "setattr" /\ last.err = "AttributeError: not listed"
    /\ Live(1) /\ "tmp" \notin DOMAIN objs[1].dict

---------------------------------------------------------------------------
(* C5: once a declared member or the length attribute is bound on an
   instance, every later assignment to that name raises the "already
   initialized" attribute error and leaves the binding and the array
   unchanged; the constructor's first assignment of each declared member
   succeeds; a cell write changes the member's contents, not its binding. *)
C5_WriteOnce ==
    [][/\ \A name \in AttrNames, m \in 0..MaxLen :
            (/\ SetAttr(1, name, m)
             /\ name \in Declared(1) \cup {"_n"}
             /\ name \in DOMAIN objs[1].dict)
               => /\ last'.err = "AttributeError: already initialized"
                  /\ objs' = objs
                  /\ heap' = heap
       /\ \A cls \in Classes, n \in 0..MaxLen :
            Construct(cls, n, 1)
               => /\ DOMAIN objs'[1].dict = Declared(1)' \cup {"_n"}
                  /\ len(objs'[1]) = n
       /\ \A nm \in {"x", "y"}, i \in 1..MaxLen, v \in Vals :
            Mutate(1, nm, i, v)
               => /\ objs' = objs
                  /\ Member(1, nm)' = [Member(1, nm) EXCEPT ![i] = v]
      ]_vars

\* c.x = zeros(m) was refused on a container whose x has been written in place.
C5_Witness ==
    /\ last.op = "setattr" /\ last.err = "AttributeError: already initialized"
    /\ Live(1) /\ len(objs[1]) = 2 /\ Member(1, "x") = <<1, 0>>

---------------------------------------------------------------------------
(* C6: in every reachable state, every declared member of every container
   has first dimension equal to the container's length. *)
C6_MembersHaveLength ==
    \A s \in Slots :
       Live(s) => \A nm \in Declared(s) : Len(Member(s, nm)) = len(objs[s])

\* A two-row container that has just been written through an index.
C6_Witness ==
    /\ last.op = "setitem" /\ last.err = "ok"
    /\ len(objs[last.self]) = 2 /\ len(objs[last.other]) = 1

---------------------------------------------------------------------------
(* C7 as stated: c[key] = other with len(other) different from the number of
   rows key selects, and a.update(b) with len(b) different from len(a), fail
   with an error and write no row. *)
RowsWritten(key) == Len(Selected(key, len(objs[1])))

C7_MismatchAlwaysFails ==
    [][/\ \A key \in Keys :
            (/\ Live(1) /\ Live(2) /\ last'.op = "setitem"
             /\ ValidKey(key, len(objs[1]))
             /\ len(objs[2]) # RowsWritten(key)
             /\ SetItem(1, key, 2))
               => last'.err # "ok" /\ heap' = heap
       /\ (/\ Live(1) /\ Live(2) /\ last'.op = "update"
           /\ len(objs[2]) # len(objs[1])
           /\ Update(1, 2))
               => last'.err # "ok" /\ heap' = heap
      ]_vars

(* C7: with at least one member declared by both containers, c[key] = other
   and a.update(b) fail with an error and write no row whenever the number
   of rows supplied differs from the number of rows written and is not 1; a
   single supplied row is not an error: it is stored in every written row. *)
C7_MismatchFailsUnlessOneRow ==
    [][/\ \A key \in Keys :
            (/\ Live(1) /\ Live(2) /\ last'.op = "setitem"
             /\ ValidKey(key, len(objs[1]))
             /\ Declared(1) \cap Declared(2) # {}
             /\ len(objs[2]) # RowsWritten(key)
             /\ SetItem(1, key, 2))
               => IF len(objs[2]) # 1
                  THEN last'.err = "ValueError" /\ heap' = heap
                  ELSE /\ last'.err = "ok"
                       /\ \A nm \in Declared(1) \cap Declared(2) :
                            \A j \in DOMAIN Selected(key, len(objs[1])) :
                               Member(1, nm)'[Selected(key, len(objs[1]))[j] + 1]
                                  = Member(2, nm)[1]
       /\ (/\ Live(1) /\ Live(2) /\ last'.op = "update"
           /\ Declared(1) \cap Declared(2) # {}
           /\ len(objs[2]) # len(objs[1])
           /\ Update(1, 2))
               => IF len(objs[2]) # 1
                  THEN last'.err = "ValueError" /\ heap' = heap
                  ELSE /\ last'.err = "ok"
                       /\ \A nm \in Declared(1) \cap Declared(2) :
                            \A j \in 1..len(objs[1]) :
                               Member(1, nm)'[j] = Member(2, nm)[1]
      ]_vars

\* A two-row source refused by a one-row destination, which keeps its zeros.
C7_Witness ==
    /\ last.op \in {"setitem", "update"} /\ last.err = "ValueError"
    /\ len(objs[1]) = 1 /\ len(objs[2]) = 2
    /\ Member(2, "x") = <<1, 1>> /\ Member(1, "x") = <<0>>

\* One supplied row stored in both rows of the destination.
C7_WitnessBroadcast ==
    /\ last.op \in {"setitem", "update"} /\ last.err = "ok"
    /\ len(objs[1]) = 2 /\ len(objs[2]) = 1
    /\ Member(2, "x") = <<1>> /\ Member(1, "x") = <<1, 1>>

(* C8: over any sequence of calls the wrapped producer is executed exactly
   once, on the first call; every call returns an independent deep copy of
   the stored result, so writing into a returned value never changes what
   later calls return. *)
C8_ProducerRunsOnce ==
    /\ calls >= 1 => runs = 1
    /\ \A k \in DOMAIN rets :
          /\ rets[k].t = "ref" => rets[k].id # cached.id
          /\ \A j \in DOMAIN rets : (j # k /\ rets[k].t = "ref") => rets[j].id # rets[k].id
    /\ cached.t = "ref" => cells[cached.id] = func.data

---------------------------------------------------------------------------
(* C9: every bulk conversion invokes the subclass hook of its direction
   exactly once: from_c and update_from_c invoke _from_c_impl once, to_c
   invokes _to_c_impl once, for every container length n >= 0. *)
C9_HookOncePerConversion ==
    arr_last.op \in {"to_c", "from_c", "update_from_c"}
       => arr_last.err = "ok" /\ arr_last.hook = 1

---------------------------------------------------------------------------
(* C10: to_c(r) completes without error for every object r, giving a record
   in which each field whose attribute is present holds the coerced value
   (text encoded for a char array, positional construction for another
   array, pass-through otherwise) and the other fields keep their defaults;
   from_c of that record then agrees with r on every present attribute, up
   to those coercions. *)
Coerced(f, value) ==
    CASE f = "name" -> (IF value = "str:a" THEN "bytes:a" ELSE value)
      [] f = "pos" -> "carray:0,1"
      [] OTHER -> value

C10_ToCCompletes ==
    rec_last.op = "to_c"
       => /\ rec_last.err = "ok"
          /\ \A f \in DOMAIN rec_obj :
                rec_c[f] = IF rec_obj[f] = Absent THEN CDefault[f]
                           ELSE Coerced(f, rec_obj[f])
          /\ \A f \in DOMAIN rec_obj :
                rec_obj[f] # Absent => from_c(rec_c)[f] = Coerced(f, rec_obj[f])

====
